---- MODULE Spec2Model ----
(***************************************************************************)
(* Model of compass_simulator/core.py: the Compass parameter container     *)
(* with its derived properties, and the Dynamic engine with its run        *)
(* methods (rapidity, rapidity_simple, rapidity_exp, stability,            *)
(* stability_simple) and metric extraction (calculate_tho,                 *)
(* calculate_stab_amp).                                                    *)
(*                                                                         *)
(* Representation                                                          *)
(*  - Python None is the empty tuple and a present value v is <<v>>.       *)
(*  - Times are integers in ticks; np.arange(0, tf, t_int)[i] = i*t_int.   *)
(*  - solve_ivp's sol.y[1] is in radians.  It is held in units of pi/360   *)
(*    rad, so that np.degrees maps the raw value k to k/2 degrees.         *)
(*  - Compass quantities are integers in arbitrary units; the derived      *)
(*    properties are exact rationals [n |-> numerator, d |-> denominator]  *)
(*    with d > 0, pi being PiNum/PiDen.                                    *)
(*  - A Python exception is the name of its class.                         *)
(***************************************************************************)
EXTENDS Integers, Sequences, FiniteSets, TLC

VARIABLES
    comp,                  \* Dynamic.comp: the Compass (a record of its attributes)
    mg_fld,                \* Dynamic.mg_fld: the MagneticField
    tf_rap, tf_stab,       \* final times, ticks
    t_int,                 \* integration time interval, ticks
    tho_lim,               \* limit for tho, degrees
    alpha_init_deg,        \* initial needle angle, degrees
    t_rap, t_stab,         \* time ranges built by __init__
    rapidity_results,      \* None or the rapidity trajectory, degrees
    stability_results,     \* None or the stability trajectory, degrees
    stability_results_s,   \* None or the small-angle stability trajectory, raw
    rapidity_results_s,    \* None or the small-angle rapidity trajectory, raw
    rapidity_results_exp,  \* None or the pair (time, alpha) read from a sheet
    tho,                   \* None or a time
    stab_amp,              \* None or an amplitude, degrees
    second_half,           \* local of the last calculate_stab_amp call, or None
    ode,                   \* sol.y[1] of the engine's four problems, raw units
    status,                \* sol.status in the last call, None if solve_ivp did not return in it
    raised,                \* exception raised by the last call, or None
    ret                    \* the last property read or function called and its value, or None

vars == <<comp, mg_fld, tf_rap, tf_stab, t_int, tho_lim, alpha_init_deg,
          t_rap, t_stab,
          rapidity_results, stability_results, stability_results_s,
          rapidity_results_s, rapidity_results_exp, tho, stab_amp,
          second_half, ode, status, raised, ret>>

\* What no run method assigns: the parameters and the time ranges.
params == <<comp, mg_fld, tf_rap, tf_stab, t_int, alpha_init_deg, t_rap, t_stab>>

----------------------------------------------------------------------------
(* Python values *)

None == <<>>
Some(v) == <<v>>
Val(o) == o[1]

Abs(a) == IF a < 0 THEN -a ELSE a

RECURSIVE SeqMax(_)
SeqMax(s) ==
    IF Len(s) = 1 THEN s[1]
    ELSE LET r == SeqMax(Tail(s)) IN IF s[1] > r THEN s[1] ELSE r

RECURSIVE SeqMin(_)
SeqMin(s) ==
    IF Len(s) = 1 THEN s[1]
    ELSE LET r == SeqMin(Tail(s)) IN IF s[1] < r THEN s[1] ELSE r

\* round(n / 2) rounding a half up, as in Python 2.
RoundHalfUp(n) == (n + 1) \div 2

\* Python 3 round(n / 2) for an int n >= 0: round half to even.
RoundHalf(n) ==
    IF n % 2 = 0 THEN n \div 2
    ELSE IF ((n - 1) \div 2) % 2 = 0 THEN (n - 1) \div 2 ELSE (n + 1) \div 2

\* a[start:] for a Python int start (negative counts from the end; -0 is 0).
SliceFrom(a, start) ==
    LET n == Len(a)
        lo == IF start < 0
              THEN (IF n + start < 0 THEN 0 ELSE n + start)
              ELSE (IF start > n THEN n ELSE start)
    IN  SubSeq(a, lo + 1, n)

\* np.arange(0, stop, step) for step > 0: ceil(stop / step) values i * step.
Arange(stop, step) ==
    LET n == IF stop <= 0 THEN 0 ELSE (stop + step - 1) \div step
    IN  [i \in 1..n |-> (i - 1) * step]

\* np.degrees on a raw array (units of pi/360 rad).
Degrees(y) == [i \in 1..Len(y) |-> y[i] \div 2]

----------------------------------------------------------------------------
(* Outcome of evaluating a Python expression: a value or an exception. *)

Ok(v) == [exc |-> None, val |-> Some(v)]
Raise(e) == [exc |-> Some(e), val |-> None]

\* A float whose value the model does not track (it only feeds the ODE).
Float == "float"

----------------------------------------------------------------------------
(* class Compass *)

\* math.pi as the rational PiNum / PiDen.  The sign of every expression below
\* is that of the exact value for disk_radius < 113 (113 does not divide
\* disk_radius^4, and the error of 355/113 is under 3e-7).
PiNum == 355
PiDen == 113

Pow(a, k) == IF k = 2 THEN a * a ELSE IF k = 3 THEN a * a * a ELSE a * a * a * a

\* mom_z with the parallel-axis term m * x instead of m * x^2.
mom_z_unsquared(c) ==
    LET disk_mom12 == 6 * PiNum * Pow(c.disk_radius, 4) *
                        c.disk_thickness * c.needle_disk_density
        needle_mom12 == c.needle_length * c.needle_width *
                        c.needle_thickness * c.needle_disk_density *
                        (Pow(c.needle_length, 2) + Pow(c.needle_width, 2))
    IN  [n |-> disk_mom12 + PiDen * needle_mom12 +
               12 * PiDen * (c.magnet_mom_z + c.m * c.x),
         d |-> 12 * PiDen]

\* Compass.mom_z, times 12 * PiDen.
mom_z(c) ==
    LET disk_mom12 == 6 * PiNum * Pow(c.disk_radius, 4) *
                        c.disk_thickness * c.needle_disk_density
        needle_mom12 == c.needle_length * c.needle_width *
                        c.needle_thickness * c.needle_disk_density *
                        (Pow(c.needle_length, 2) + Pow(c.needle_width, 2))
    IN  [n |-> disk_mom12 + PiDen * needle_mom12 +
               12 * PiDen * (c.magnet_mom_z + c.m * Pow(c.x, 2)),
         d |-> 12 * PiDen]

\* Compass.visc_coef: 1 / z_h and 1 / z_b raise on zero; otherwise
\* viscosity * (z_h + z_b) / (z_h * z_b) * geom, geom times 24 * PiDen.
visc_coef(c) ==
    IF c.z_h = 0 \/ c.z_b = 0 THEN Raise("ZeroDivisionError")
    ELSE LET geom24 == 12 * PiNum * Pow(c.disk_radius, 4) +
                       PiDen * ((Pow(c.needle_length, 3) -
                                 8 * Pow(c.disk_radius, 3)) * c.needle_width +
                                (c.needle_length - 2 * c.disk_radius) *
                                 Pow(c.needle_width, 3))
         IN  Ok([n |-> c.viscosity * (c.z_h + c.z_b) * geom24,
                 d |-> 24 * PiDen * c.z_h * c.z_b])

\* The attributes Compass.__init__ stores.  A Compass has no attribute visc.
CompassAttributes ==
    {"name", "needle_length", "needle_width", "needle_thickness",
     "needle_disk_density", "disk_radius", "disk_thickness", "mag_rem", "V",
     "m", "magnet_mom_z", "x", "rho", "viscosity", "z_h", "z_b"}

\* self.comp.<attr>: a stored attribute, a property, or AttributeError.
HasAttr(attr) == attr \in CompassAttributes \cup {"mom_z", "visc_coef"}

\* Compass.__init__ stores its arguments and validates nothing: needle length,
\* width, thickness and density, disk radius and thickness, magnet mass and
\* moment, offset, viscosity, gap heights.
Compass(nl, nw, nt, nd, dr, dt, m, mm, x, v, zh, zb) ==
    [needle_length |-> nl, needle_width |-> nw, needle_thickness |-> nt,
     needle_disk_density |-> nd, disk_radius |-> dr, disk_thickness |-> dt,
     m |-> m, magnet_mom_z |-> mm, x |-> x, viscosity |-> v,
     z_h |-> zh, z_b |-> zb]

\* MagneticField.__init__: intensity and inclination in degrees.
MagneticField(intensity, i_deg) == [int |-> intensity, i_deg |-> i_deg]

----------------------------------------------------------------------------
(* class Dynamic: coefficients of the second order equation *)

\* Dynamic.mg_trm: ... / (MAG_PER * comp.mom_z), a float division.
mg_trm(c) ==
    IF mom_z(c).n = 0 THEN Raise("ZeroDivisionError") ELSE Ok(Float)

\* Dynamic.visc_trm: -exp_coef_visc * comp.visc_coef / comp.mom_z.
visc_trm(c) ==
    IF visc_coef(c).exc # None THEN visc_coef(c)
    ELSE IF mom_z(c).n = 0 THEN Raise("ZeroDivisionError") ELSE Ok(Float)

\* Dynamic.ext_trm: ... / comp.mom_z.
ext_trm(c) ==
    IF mom_z(c).n = 0 THEN Raise("ZeroDivisionError") ELSE Ok(Float)

\* Dynamic.amplification: mg_trm and comp.mom_z are evaluated, then comp.visc.
amplification(c) ==
    IF mg_trm(c).exc # None THEN mg_trm(c)
    ELSE IF ~HasAttr("visc") THEN Raise("AttributeError")
    ELSE Ok(Float)

\* Dynamic.phase: comp.visc is evaluated first.
phase(c) ==
    IF ~HasAttr("visc") THEN Raise("AttributeError")
    ELSE IF mg_trm(c).exc # None THEN mg_trm(c)
    ELSE Ok(Float)

----------------------------------------------------------------------------
(* scipy.integrate.solve_ivp, as the run methods use it *)

\* The first exception F(t, x) raises: it reads mg_trm, then visc_trm, then
\* (stability runs only) ext_trm.
FExc(c, with_ext) ==
    IF mg_trm(c).exc # None THEN mg_trm(c).exc
    ELSE IF visc_trm(c).exc # None THEN visc_trm(c).exc
    ELSE IF with_ext /\ ext_trm(c).exc # None THEN ext_trm(c).exc
    ELSE None

\* solve_ivp(fun=F, t_span=(0, tf), y0, t_eval): t_eval outside t_span is a
\* ValueError; an exception of F propagates; otherwise the solver steps and
\* returns the samples it reached, y: one per value of t_eval with status 0,
\* or fewer with status -1 when a step failed (Len(y) <= Len(t_eval)).
\* sol.y is the empty list when no sample was reached.
solve_ivp(f_exc, tf, t_eval, y) ==
    IF \E i \in 1..Len(t_eval) : t_eval[i] > tf
    THEN [exc |-> Some("ValueError"), status |-> None, y |-> <<>>]
    ELSE IF f_exc # None
    THEN [exc |-> f_exc, status |-> None, y |-> <<>>]
    ELSE [exc |-> None,
          status |-> Some(IF Len(y) = Len(t_eval) THEN 0 ELSE -1),
          y |-> y]

----------------------------------------------------------------------------
(* class Dynamic: metrics *)

\* The loop of calculate_tho from Python index i on: for i in range(1, n - 1).
\* Python r[i - 1], r[i], t_rap[i] are r[i], r[i + 1], t[i + 1] here.
RECURSIVE tho_loop(_, _, _, _, _)
tho_loop(r, lim, t, i, cur) ==
    IF i >= Len(r) - 1 THEN cur
    ELSE LET cross == \/ Abs(r[i]) > lim /\ Abs(r[i + 1]) < lim
                      \/ Abs(r[i]) < lim /\ Abs(r[i + 1]) > lim
         IN  tho_loop(r, lim, t, i + 1, IF cross THEN Some(t[i + 1]) ELSE cur)

\* The loop of calculate_tho with range(1, n) for its range.
RECURSIVE tho_loop_to_end(_, _, _, _, _)
tho_loop_to_end(r, lim, t, i, cur) ==
    IF i >= Len(r) THEN cur
    ELSE LET cross == \/ Abs(r[i]) > lim /\ Abs(r[i + 1]) < lim
                      \/ Abs(r[i]) < lim /\ Abs(r[i + 1]) > lim
         IN  tho_loop_to_end(r, lim, t, i + 1,
                             IF cross THEN Some(t[i + 1]) ELSE cur)

calculate_tho_to_end(r, lim, t, cur) == tho_loop_to_end(r, lim, t, 1, cur)

\* Dynamic.calculate_tho: the new self.tho; cur is self.tho on entry.
calculate_tho(r, lim, t, cur) == tho_loop(r, lim, t, 1, cur)

\* Dynamic.calculate_stab_amp: index and second_half.
stab_window(r) == SliceFrom(r, -RoundHalf(Len(r)))

\* Dynamic.calculate_stab_amp: np.max(second_half) - np.min(second_half).
calculate_stab_amp(r) == SeqMax(stab_window(r)) - SeqMin(stab_window(r))

\* The literal threshold of rapidity_exp, degrees.
ExpLim == 5

\* The loop of rapidity_exp leaving at the first row over the threshold.
RECURSIVE exp_loop_first(_, _, _)
exp_loop_first(sheet, r, cur) ==
    IF r >= Len(sheet) THEN cur
    ELSE IF Abs(sheet[r + 1][2]) > ExpLim THEN Some(sheet[r + 1][1])
    ELSE exp_loop_first(sheet, r + 1, cur)

\* The loop of rapidity_exp over sheet rows r = 1 .. rows - 1 (row 0 is not
\* read); sheet[r + 1] is Python row r, a pair <<time, alpha>>.
RECURSIVE exp_loop(_, _, _)
exp_loop(sheet, r, cur) ==
    IF r >= Len(sheet) THEN cur
    ELSE exp_loop(sheet, r + 1,
                  IF Abs(sheet[r + 1][2]) > ExpLim THEN Some(sheet[r + 1][1])
                  ELSE cur)

\* The (time, alpha) pair of lists rapidity_exp builds.
exp_columns(sheet) ==
    <<[r \in 1..(Len(sheet) - 1) |-> sheet[r + 1][1]],
      [r \in 1..(Len(sheet) - 1) |-> sheet[r + 1][2]]>>

----------------------------------------------------------------------------
(* class Dynamic: construction *)

\* Dynamic.__init__ for Dynamic(c, f, alpha_init_deg=a, tf_rap=tfr,
\* tf_stab=tfs, t_int=ti, tho_lim=lim); o is what the solver returns for the
\* engine's four problems.
DynamicInit(c, f, a, tfr, tfs, ti, lim, o) ==
    /\ comp = c
    /\ mg_fld = f
    /\ alpha_init_deg = a
    /\ tf_rap = tfr
    /\ tf_stab = tfs
    /\ t_int = ti
    /\ tho_lim = lim
    /\ t_rap = Arange(tfr, ti)
    /\ t_stab = Arange(tfs, ti)
    /\ rapidity_results = None
    /\ stability_results = None
    /\ stability_results_s = None
    /\ rapidity_results_s = None
    /\ rapidity_results_exp = None
    /\ tho = None
    /\ stab_amp = None
    /\ second_half = None
    /\ ode = o
    /\ status = None
    /\ raised = None
    /\ ret = None

----------------------------------------------------------------------------
(* class Dynamic: run methods.  The solver is deterministic: ode holds what it
   returns for the engine's four problems. *)

\* What solve_ivp reaches for the rapidity problems, y0 = [0, alpha_init]: with
\* alpha_init = 0 the needle is at rest at north, F(t, y0) = [0, 0] and every
\* sample is 0; otherwise it is the engine's solution y.
rap_solution(y) ==
    IF alpha_init_deg = 0 THEN [i \in 1..Len(t_rap) |-> 0] ELSE y

\* Dynamic.rapidity
rapidity ==
        LET sol == solve_ivp(FExc(comp, FALSE), tf_rap, t_rap,
                           rap_solution(ode.rap))
            res == Degrees(sol.y)
        IN  /\ status' = sol.status
            /\ IF sol.exc # None
               THEN raised' = sol.exc /\ UNCHANGED <<rapidity_results, tho>>
               ELSE IF sol.y = <<>>
               THEN /\ raised' = Some("IndexError")
                    /\ UNCHANGED <<rapidity_results, tho>>
               ELSE /\ raised' = None
                    /\ rapidity_results' = Some(res)
                    /\ tho' = calculate_tho(res, tho_lim, t_rap, tho)
            /\ UNCHANGED <<params, tho_lim, stability_results,
                           stability_results_s, rapidity_results_s,
                           rapidity_results_exp, stab_amp, second_half, ode, ret>>

\* Dynamic.rapidity_simple
rapidity_simple ==
        LET sol == solve_ivp(FExc(comp, FALSE), tf_rap, t_rap,
                           rap_solution(ode.rap_s))
        IN  /\ status' = sol.status
            /\ IF sol.exc # None
               THEN raised' = sol.exc /\ UNCHANGED rapidity_results_s
               ELSE IF sol.y = <<>>
               THEN raised' = Some("IndexError") /\ UNCHANGED rapidity_results_s
               ELSE raised' = None /\ rapidity_results_s' = Some(sol.y)
            /\ UNCHANGED <<params, tho_lim, rapidity_results, stability_results,
                           stability_results_s, rapidity_results_exp, tho,
                           stab_amp, second_half, ode, ret>>

\* Dynamic.rapidity_exp(file_name), sheet being the first sheet of the workbook
rapidity_exp(sheet) ==
    /\ tho' = exp_loop(sheet, 1, tho)
    /\ rapidity_results_exp' = Some(exp_columns(sheet))
    /\ raised' = None
    /\ status' = None
    /\ UNCHANGED <<params, tho_lim, rapidity_results, stability_results,
                   stability_results_s, rapidity_results_s, stab_amp,
                   second_half, ode, ret>>

\* Dynamic.stability
stability ==
        LET sol == solve_ivp(FExc(comp, TRUE), tf_stab, t_stab, ode.stab)
            res == Degrees(sol.y)
        IN  /\ status' = sol.status
            /\ IF sol.exc # None
               THEN /\ raised' = sol.exc
                    /\ UNCHANGED <<stability_results, stab_amp, second_half>>
               ELSE IF sol.y = <<>>
               THEN /\ raised' = Some("IndexError")
                    /\ UNCHANGED <<stability_results, stab_amp, second_half>>
               ELSE /\ raised' = None
                    /\ stability_results' = Some(res)
                    /\ second_half' = Some(stab_window(res))
                    /\ stab_amp' = Some(calculate_stab_amp(res))
            /\ UNCHANGED <<params, tho_lim, rapidity_results,
                           stability_results_s, rapidity_results_s,
                           rapidity_results_exp, tho, ode, ret>>

\* stability_simple storing into the slot of stability().
stability_simple_wrong_slot ==
        LET sol == solve_ivp(FExc(comp, TRUE), tf_stab, t_stab, ode.stab_s)
        IN  /\ status' = sol.status
            /\ IF sol.exc # None
               THEN raised' = sol.exc /\ UNCHANGED stability_results
               ELSE IF sol.y = <<>>
               THEN raised' = Some("IndexError") /\ UNCHANGED stability_results
               ELSE raised' = None /\ stability_results' = Some(sol.y)
            /\ UNCHANGED <<params, tho_lim, rapidity_results,
                           stability_results_s, rapidity_results_s,
                           rapidity_results_exp, tho, stab_amp, second_half,
                           ode, ret>>

\* Dynamic.stability_simple
stability_simple ==
        LET sol == solve_ivp(FExc(comp, TRUE), tf_stab, t_stab, ode.stab_s)
        IN  /\ status' = sol.status
            /\ IF sol.exc # None
               THEN raised' = sol.exc /\ UNCHANGED stability_results_s
               ELSE IF sol.y = <<>>
               THEN raised' = Some("IndexError") /\ UNCHANGED stability_results_s
               ELSE raised' = None /\ stability_results_s' = Some(sol.y)
            /\ UNCHANGED <<params, tho_lim, rapidity_results, stability_results,
                           rapidity_results_s, rapidity_results_exp, tho,
                           stab_amp, second_half, ode, ret>>

\* dyn.tho_lim = lim
set_tho_lim(lim) ==
    /\ tho_lim' = lim
    /\ UNCHANGED <<params, rapidity_results, stability_results,
                   stability_results_s, rapidity_results_s,
                   rapidity_results_exp, tho, stab_amp, second_half, ode,
                   status, raised, ret>>

\* dyn.alpha_init_deg = a
set_alpha_init_deg(a) ==
    /\ alpha_init_deg' = a
    /\ UNCHANGED <<comp, mg_fld, tf_rap, tf_stab, t_int, t_rap, t_stab, tho_lim,
                   rapidity_results, stability_results, stability_results_s,
                   rapidity_results_s, rapidity_results_exp, tho, stab_amp,
                   second_half, ode, status, raised, ret>>

\* dyn.tf_rap = tf: the attribute alone; t_rap is built by __init__ only.
set_tf_rap(tf) ==
    /\ tf_rap' = tf
    /\ UNCHANGED <<comp, mg_fld, tf_stab, t_int, alpha_init_deg, t_rap, t_stab,
                   tho_lim, rapidity_results, stability_results,
                   stability_results_s, rapidity_results_s,
                   rapidity_results_exp, tho, stab_amp, second_half, ode,
                   status, raised, ret>>

\* dyn.tf_stab = tf
set_tf_stab(tf) ==
    /\ tf_stab' = tf
    /\ UNCHANGED <<comp, mg_fld, tf_rap, t_int, alpha_init_deg, t_rap, t_stab,
                   tho_lim, rapidity_results, stability_results,
                   stability_results_s, rapidity_results_s,
                   rapidity_results_exp, tho, stab_amp, second_half, ode,
                   status, raised, ret>>

\* dyn.t_int = ti
set_t_int(ti) ==
    /\ t_int' = ti
    /\ UNCHANGED <<comp, mg_fld, tf_rap, tf_stab, alpha_init_deg, t_rap, t_stab,
                   tho_lim, rapidity_results, stability_results,
                   stability_results_s, rapidity_results_s,
                   rapidity_results_exp, tho, stab_amp, second_half, ode,
                   status, raised, ret>>

\* Reading a property: prop names it and out is its outcome.
read(prop, out) ==
    /\ ret' = Some([prop |-> prop, val |-> out.val])
    /\ raised' = out.exc
    /\ status' = None
    /\ UNCHANGED <<params, tho_lim, rapidity_results, stability_results,
                   stability_results_s, rapidity_results_s,
                   rapidity_results_exp, tho, stab_amp, second_half, ode>>

read_mom_z == read("mom_z", Ok(mom_z(comp)))
read_visc_coef == read("visc_coef", visc_coef(comp))
read_mg_trm == read("mg_trm", mg_trm(comp))
read_visc_trm == read("visc_trm", visc_trm(comp))
read_ext_trm == read("ext_trm", ext_trm(comp))
read_amplification == read("amplification", amplification(comp))
read_phase == read("phase", phase(comp))

----------------------------------------------------------------------------
(* Inputs *)

\* Largest number of rapidity samples, of stability samples and of data rows
\* of a sheet, and largest Compass dimension the specifications draw.
MaxRap == 5
MaxStab == 8
MaxRows == 2
MaxDim == 3

\* Defaults of Dynamic.__init__: alpha_init_deg, tf_rap, tf_stab and tho_lim,
\* with one tick per second and t_int of one tick.
AlphaInitDefault == 90
TfRapDefault == 3
TfStabDefault == 5
ThoLimDefault == 5

ThoLims == {ThoLimDefault, 6}
AlphaInits == {AlphaInitDefault, 0}

\* Raw solver outputs (units of pi/360 rad): -6, 3, 4, 6 and 10 degrees.
RawAngles == {-12, 6, 8, 12, 20}
StabAngles == {-4, 2, 6}

Signals(n, S) == [1..n -> S]
Prefixes(y) == {SubSeq(y, 1, k) : k \in 0..Len(y)}

\* 6, 4, -6, 3, 10, 6, 4, ... degrees: a needle swinging through the limit.
Swing(n) == [i \in 1..n |-> <<12, 8, -12, 6, 20>>[((i - 1) % 5) + 1]]
\* 1, 2, 3, ... degrees.
Ramp(n) == [i \in 1..n |-> 2 * i]

\* A valid compass with the proportions of the default R500, and the default
\* magnetic field.
R500 == Compass(4, 1, 1, 1, 1, 1, 1, 1, -1, 1, 1, 1)
Lille == MagneticField(1, 65)

\* First sheets of workbooks: empty, or a header row and data rows
\* <<time, alpha>> with time 10, 20, ... and alpha in degrees.
Header == <<"time", "alpha">>
Sheets ==
    {<<>>} \cup
    UNION {{<<Header>> \o [r \in 1..n |-> <<10 * r, a[r]>>] :
                a \in [1..n -> {3, -6, 10}]} : n \in 0..MaxRows}

----------------------------------------------------------------------------
(* Specification of one engine's life: every run method and attribute
   updates, on the default compass with the default time ranges.  The solver
   reaches every sample, or fails part-way. *)

Init ==
    \E rap \in Prefixes(Swing(TfRapDefault)),
       stab \in {Ramp(TfStabDefault), Ramp(2)} :
        DynamicInit(R500, Lille, AlphaInitDefault, TfRapDefault,
                    TfStabDefault, 1, ThoLimDefault,
                    [rap |-> rap, rap_s |-> rap, stab |-> stab, stab_s |-> stab])

Next ==
    \/ rapidity
    \/ rapidity_simple
    \/ \E sheet \in {s \in Sheets : Len(s) <= 2} : rapidity_exp(sheet)
    \/ stability
    \/ stability_simple
    \/ \E lim \in ThoLims : set_tho_lim(lim)
    \/ \E a \in AlphaInits : set_alpha_init_deg(a)

Spec == Init /\ [][Next]_vars

----------------------------------------------------------------------------
(* Properties of one engine's life *)

\* The threshold is crossed between consecutive samples a and b.
Cross(a, b, lim) ==
    \/ Abs(a) > lim /\ Abs(b) < lim
    \/ Abs(a) < lim /\ Abs(b) > lim

\* The indices i (from 2) at which r crosses lim between r[i - 1] and r[i],
\* every consecutive pair counted.
Crossings(r, lim) == {i \in 2..Len(r) : Cross(r[i - 1], r[i], lim)}

SetMax(S) == CHOOSE m \in S : \A x \in S : x <= m
SetMin(S) == CHOOSE m \in S : \A x \in S : m <= x

\* C2: whenever rapidity() stores a trajectory in which the threshold is never
\* crossed between consecutive samples, tho is None when the call returns.
C2_ThoAbsentWhenNeverCrossed ==
    [][(/\ rapidity
        /\ raised' = None
        /\ Crossings(Val(rapidity_results'), tho_lim) = {})
       => tho' = None]_vars

\* C4: a run whose solver failed (sol.status = -1) ends with NumericalFailure,
\* and no result slot holds a trajectory shorter than its time range.
C4_SolverFailureSurfaced ==
    /\ status = Some(-1) => raised = Some("NumericalFailure")
    /\ rapidity_results # None => Len(Val(rapidity_results)) = Len(t_rap)
    /\ rapidity_results_s # None => Len(Val(rapidity_results_s)) = Len(t_rap)
    /\ stability_results # None => Len(Val(stability_results)) = Len(t_stab)
    /\ stability_results_s # None => Len(Val(stability_results_s)) = Len(t_stab)

\* C7: rapidity() assigns only rapidity_results and tho, stability() only
\* stability_results and stab_amp, rapidity_simple() only rapidity_results_s
\* and stability_simple() only stability_results_s; the parameters, the time
\* ranges and every other slot and metric keep their values.
C7_RunsIndependent ==
    [][/\ rapidity =>
            UNCHANGED <<params, tho_lim, stability_results, stab_amp,
                        rapidity_results_s, stability_results_s,
                        rapidity_results_exp>>
       /\ stability =>
            UNCHANGED <<params, tho_lim, rapidity_results, tho,
                        rapidity_results_s, stability_results_s,
                        rapidity_results_exp>>
       /\ rapidity_simple =>
            UNCHANGED <<params, tho_lim, rapidity_results, tho,
                        stability_results, stab_amp, stability_results_s,
                        rapidity_results_exp>>
       /\ stability_simple =>
            UNCHANGED <<params, tho_lim, rapidity_results, tho,
                        stability_results, stab_amp, rapidity_results_s,
                        rapidity_results_exp>>]_vars

\* C7 witness: every run method has stored a result, rapidity() has been
\* re-invoked (its slot holds the rest trajectory, tho the earlier crossing).
C7_Witness ==
    /\ rapidity_results = Some([i \in 1..Len(t_rap) |-> 0])
    /\ tho # None
    /\ stability_results # None
    /\ stab_amp # None
    /\ rapidity_results_s # None
    /\ stability_results_s # None

----------------------------------------------------------------------------
(* Specification of the settling-time scan: rapidity() on every trajectory of
   up to MaxRap samples over RawAngles, under either limit. *)

InitTho ==
    \E n \in 1..MaxRap : \E rap \in Signals(n, RawAngles) :
        DynamicInit(R500, Lille, AlphaInitDefault, n, TfStabDefault, 1,
                    ThoLimDefault,
                    [rap |-> rap, rap_s |-> rap,
                     stab |-> Ramp(TfStabDefault),
                     stab_s |-> Ramp(TfStabDefault)])

NextTho ==
    \/ rapidity
    \/ \E lim \in ThoLims : set_tho_lim(lim)

SpecTho == InitTho /\ [][NextTho]_vars

\* C1: when rapidity() stores a trajectory that crosses the threshold, tho is
\* the time sample of the last crossing index, the final pair included.
C1_ThoIsLastCrossing ==
    [][(/\ rapidity
        /\ raised' = None
        /\ Crossings(Val(rapidity_results'), tho_lim) # {})
       => tho' = Some(t_rap[SetMax(Crossings(Val(rapidity_results'), tho_lim))])]_vars

----------------------------------------------------------------------------
(* Specification of the experimental overlay: rapidity_exp on every sheet of
   up to MaxRows data rows, before and after a rapidity() run. *)

InitExp ==
    \E lim \in ThoLims :
        DynamicInit(R500, Lille, AlphaInitDefault, TfRapDefault,
                    TfStabDefault, 1, lim,
                    [rap |-> Swing(TfRapDefault), rap_s |-> Swing(TfRapDefault),
                     stab |-> Ramp(TfStabDefault),
                     stab_s |-> Ramp(TfStabDefault)])

NextExp ==
    \/ \E sheet \in Sheets : rapidity_exp(sheet)
    \/ rapidity
    \/ \E lim \in ThoLims : set_tho_lim(lim)

SpecExp == InitExp /\ [][NextExp]_vars

\* The data rows (Python rows 1 .. rows - 1) whose angle magnitude exceeds lim.
Exceeding(sheet, lim) == {r \in 2..Len(sheet) : Abs(sheet[r][2]) > lim}

----------------------------------------------------------------------------
(* Specification of the stability amplitude: stability() on every trajectory
   of up to MaxStab samples over StabAngles, and on the ramps. *)

InitStab ==
    \E n \in 1..MaxStab : \E stab \in Signals(n, StabAngles) \cup {Ramp(n)} :
        DynamicInit(R500, Lille, AlphaInitDefault, TfRapDefault, n, 1,
                    ThoLimDefault,
                    [rap |-> Swing(TfRapDefault), rap_s |-> Swing(TfRapDefault),
                     stab |-> stab, stab_s |-> stab])

NextStab ==
    \/ stability
    \/ stability_simple

SpecStab == InitStab /\ [][NextStab]_vars

\* The last k samples of r.
LastSamples(r, k) == SubSeq(r, Len(r) - k + 1, Len(r))

\* round(n / 2): the integer nearest to n / 2, the even one of two.
Nearest(n) ==
    CHOOSE k \in 0..n : \/ 2 * k = n
                        \/ Abs(2 * k - n) = 1 /\ k % 2 = 0

\* max - min over the samples of a window w.
Amplitude(w) ==
    (CHOOSE a \in {w[i] : i \in 1..Len(w)} : \A i \in 1..Len(w) : w[i] <= a) -
    (CHOOSE a \in {w[i] : i \in 1..Len(w)} : \A i \in 1..Len(w) : a <= w[i])

\* C3: after stability() on n >= 1 samples the window is exactly the last
\* round(n / 2) samples and stab_amp is max - min over them.
C3_WindowIsLastHalf ==
    stability_results # None =>
        LET r == Val(stability_results)
            w == LastSamples(r, Nearest(Len(r)))
        IN  /\ second_half = Some(w)
            /\ w # <<>>
            /\ stab_amp = Some(Amplitude(w))

\* C3 amended: for n >= 2 samples the window is exactly the last round(n / 2)
\* samples, round being to the nearest integer and to the even one on a tie
\* (2 of 5 samples); for n = 1 it is the single sample.  stab_amp is max - min
\* over the window; on [1, 2, 3, 4, 5, 6, 7, 8] the window is [5, 6, 7, 8] and
\* stab_amp is 3.
C3_WindowAmended ==
    stability_results # None =>
        LET r == Val(stability_results)
            w == LastSamples(r, IF Len(r) = 1 THEN 1 ELSE Nearest(Len(r)))
        IN  /\ second_half = Some(w)
            /\ stab_amp = Some(Amplitude(w))
            /\ r = <<1, 2, 3, 4, 5, 6, 7, 8>> =>
                    second_half = Some(<<5, 6, 7, 8>>) /\ stab_amp = Some(3)

\* C3 witness: stability() has run on [1, 2, 3, 4, 5, 6, 7, 8].
C3_Witness ==
    /\ stability_results = Some(<<1, 2, 3, 4, 5, 6, 7, 8>>)
    /\ stab_amp = Some(3)

----------------------------------------------------------------------------
(* Specification of the derived properties: mom_z and visc_coef read on every
   Compass with non-negative quantities up to MaxDim and an offset x of
   either sign. *)

Dims == 0..MaxDim
Bit == {0, 1}

\* Every quantity is non-negative, x excepted.
Valid(c) ==
    /\ c.needle_length >= 0 /\ c.needle_width >= 0 /\ c.needle_thickness >= 0
    /\ c.needle_disk_density >= 0 /\ c.disk_radius >= 0
    /\ c.disk_thickness >= 0 /\ c.m >= 0 /\ c.magnet_mom_z >= 0
    /\ c.viscosity >= 0 /\ c.z_h >= 0 /\ c.z_b >= 0

\* Every quantity is strictly positive, x excepted.
Positive(c) ==
    /\ c.needle_length > 0 /\ c.needle_width > 0 /\ c.needle_thickness > 0
    /\ c.needle_disk_density > 0 /\ c.disk_radius > 0
    /\ c.disk_thickness > 0 /\ c.m > 0 /\ c.magnet_mom_z > 0
    /\ c.viscosity > 0 /\ c.z_h > 0 /\ c.z_b > 0

InitCompass ==
    \E nl \in Dims, nw \in Dims, dr \in Dims, nt \in Bit, nd \in Bit,
       dt \in Bit, m \in Bit, mm \in Bit, x \in {-1, 0, 1}, v \in Bit,
       zh \in Bit, zb \in Bit :
        DynamicInit(Compass(nl, nw, nt, nd, dr, dt, m, mm, x, v, zh, zb),
                    Lille, AlphaInitDefault, TfRapDefault, TfStabDefault, 1,
                    ThoLimDefault,
                    [rap |-> Swing(TfRapDefault), rap_s |-> Swing(TfRapDefault),
                     stab |-> Ramp(TfStabDefault),
                     stab_s |-> Ramp(TfStabDefault)])

NextCompass ==
    \/ read_mom_z
    \/ read_visc_coef

SpecCompass == InitCompass /\ [][NextCompass]_vars

\* The property last read is prop.
Read(prop) == ret # None /\ Val(ret).prop = prop

\* The rational the last read returned is strictly positive, is >= 0.
ReadPositive == raised = None /\ Val(Val(ret).val).n > 0
ReadNonNegative == raised = None /\ Val(Val(ret).val).n >= 0

\* C10: for every valid Compass, mom_z and visc_coef are strictly positive.
C10_StrictlyPositive ==
    (Valid(comp) /\ (Read("mom_z") \/ Read("visc_coef"))) => ReadPositive

\* C10 amended: for every valid Compass mom_z is non-negative; when every
\* quantity other than x is strictly positive, mom_z is strictly positive,
\* and so is visc_coef provided disk_radius <= needle_length / 2.
C10_PositiveWhenAllPositive ==
    /\ (Valid(comp) /\ Read("mom_z")) => ReadNonNegative
    /\ (Positive(comp) /\ Read("mom_z")) => ReadPositive
    /\ (/\ Positive(comp)
        /\ 2 * comp.disk_radius <= comp.needle_length
        /\ Read("visc_coef")) => ReadPositive

\* C10 witness: visc_coef has been read on a Compass with every quantity
\* positive, a negative offset and a disk within the needle.
C10_Witness ==
    /\ Positive(comp)
    /\ comp.x < 0
    /\ 2 * comp.disk_radius <= comp.needle_length
    /\ Read("visc_coef")
    /\ ReadPositive

----------------------------------------------------------------------------
(* Specification of invalid parameters: the property reads and the run
   methods on the default compass, on one with a negative magnet mass and on
   ones with a zero moment of inertia. *)

NegativeMass == Compass(4, 1, 1, 1, 1, 1, -1, 1, -1, 1, 1, 1)
NoInertia == Compass(4, 1, 1, 0, 1, 1, 0, 0, -1, 1, 1, 1)
Cancelled == Compass(0, 1, 1, 1, 0, 1, -1, 1, 1, 1, 1, 1)

\* A negative magnet mass, or a zero moment of inertia.
Invalid(c) == c.m < 0 \/ mom_z(c).n = 0

InitInvalid ==
    \E c \in {R500, NegativeMass, NoInertia, Cancelled} :
        DynamicInit(c, Lille, AlphaInitDefault, TfRapDefault, 2, 1,
                    ThoLimDefault,
                    [rap |-> Swing(TfRapDefault), rap_s |-> Swing(TfRapDefault),
                     stab |-> Ramp(2), stab_s |-> Ramp(2)])

NextInvalid ==
    \/ read_mom_z
    \/ read_visc_coef
    \/ read_mg_trm
    \/ read_visc_trm
    \/ read_ext_trm
    \/ read_amplification
    \/ read_phase
    \/ rapidity
    \/ rapidity_simple
    \/ stability
    \/ stability_simple

SpecInvalid == InitInvalid /\ [][NextInvalid]_vars

\* C5: with invalid parameters every derived-property access ends with
\* InvalidParameterError and with no other exception, and no run method
\* integrates or stores a trajectory.
C5_InvalidRejected ==
    Invalid(comp) =>
        /\ ret # None => raised = Some("InvalidParameterError")
        /\ raised \in {None, Some("InvalidParameterError")}
        /\ status = None
        /\ rapidity_results = None /\ rapidity_results_s = None
        /\ stability_results = None /\ stability_results_s = None

\* C9: on a valid Compass with a positive moment of inertia, reading
\* amplification or phase returns a number and raises nothing.
C9_AnalyticExposed ==
    (/\ Valid(comp) /\ ~Invalid(comp)
     /\ (Read("amplification") \/ Read("phase")))
    => raised = None /\ Val(ret).val # None

----------------------------------------------------------------------------
(* Specification of the time ranges: the default engine, whose solver reaches
   every sample, under updates of tf_rap, tf_stab and t_int and runs of
   rapidity and stability. *)

MaxTf == 6
MaxTInt == 2

InitGrid ==
    DynamicInit(R500, Lille, AlphaInitDefault, TfRapDefault, TfStabDefault, 1,
                ThoLimDefault,
                [rap |-> Swing(TfRapDefault), rap_s |-> Swing(TfRapDefault),
                 stab |-> Ramp(TfStabDefault), stab_s |-> Ramp(TfStabDefault)])

NextGrid ==
    \/ rapidity
    \/ stability
    \/ \E tf \in 1..MaxTf : set_tf_rap(tf)
    \/ \E tf \in 1..MaxTf : set_tf_stab(tf)
    \/ \E ti \in 1..MaxTInt : set_t_int(ti)

SpecGrid == InitGrid /\ [][NextGrid]_vars

\* The multiples of ti within [0, tf), in increasing order.
Multiples(tf, ti) ==
    LET S == {t \in 0..(tf - 1) : t % ti = 0}
    IN  [i \in 1..Cardinality(S) |->
             CHOOSE t \in S : Cardinality({u \in S : u < t}) = i - 1]

\* C12: when a call of rapidity() (resp. stability()) completes, the
\* trajectory it stored has one sample for each multiple of the engine's
\* current t_int within [0, tf_rap) (resp. [0, tf_stab)), and t_rap (resp.
\* t_stab) has the same length as the trajectory and holds those times.
C12_GridFollowsAttributes ==
    [][/\ (rapidity /\ raised' = None) =>
              /\ Len(Val(rapidity_results')) = Len(Multiples(tf_rap', t_int'))
              /\ Len(t_rap') = Len(Val(rapidity_results'))
              /\ t_rap' = Multiples(tf_rap', t_int')
       /\ (stability /\ raised' = None) =>
              /\ Len(Val(stability_results')) = Len(Multiples(tf_stab', t_int'))
              /\ Len(t_stab') = Len(Val(stability_results'))
              /\ t_stab' = Multiples(tf_stab', t_int')]_vars

----------------------------------------------------------------------------
(* Python floats: IEEE 754 binary64, round to nearest, ties to even.

   A natural number of any size is the sequence of its digits in base Limb,
   least significant first, without leading zero digits; 0 is <<>>.  A float
   is [neg, m, e], of value (-1)^neg * m * 2^e, with m odd, or m = 0 and
   e = 0.  The exponent range is not modelled: no value below is near the
   overflow or the subnormal range. *)

LimbBits == 12
Limb == 2^LimbBits

At(a, i) == IF i <= Len(a) THEN a[i] ELSE 0

RECURSIVE Trim(_)
Trim(a) ==
    IF a # <<>> /\ a[Len(a)] = 0 THEN Trim(SubSeq(a, 1, Len(a) - 1)) ELSE a

\* The digits of the number whose columns are s, with c carried in.
RECURSIVE Carry(_, _)
Carry(s, c) ==
    IF s = <<>>
    THEN IF c = 0 THEN <<>> ELSE <<c % Limb>> \o Carry(<<>>, c \div Limb)
    ELSE <<(s[1] + c) % Limb>> \o Carry(Tail(s), (s[1] + c) \div Limb)

Big(n) == Trim(Carry(<<n>>, 0))

BigAdd(a, b) ==
    LET n == IF Len(a) > Len(b) THEN Len(a) ELSE Len(b)
    IN  Trim(Carry([i \in 1..n |-> At(a, i) + At(b, i)], 0))

\* a - b - c for a >= b + c.
RECURSIVE Borrow(_, _, _)
Borrow(a, b, c) ==
    IF a = <<>> THEN <<>>
    ELSE LET d == a[1] - At(b, 1) - c
         IN  <<(d + Limb) % Limb>>
             \o Borrow(Tail(a), IF b = <<>> THEN <<>> ELSE Tail(b),
                       IF d < 0 THEN 1 ELSE 0)

BigSub(a, b) == Trim(Borrow(a, b, 0))

RECURSIVE CmpFrom(_, _, _)
CmpFrom(a, b, i) ==
    IF i = 0 THEN 0
    ELSE IF a[i] # b[i] THEN (IF a[i] < b[i] THEN -1 ELSE 1)
    ELSE CmpFrom(a, b, i - 1)

\* -1, 0 or 1 as a < b, a = b or a > b.
BigCmp(a, b) ==
    IF Len(a) # Len(b) THEN (IF Len(a) < Len(b) THEN -1 ELSE 1)
    ELSE CmpFrom(a, b, Len(a))

RECURSIVE ColSum(_, _, _, _)
ColSum(a, b, k, i) ==
    IF i > Len(a) \/ i > k THEN 0
    ELSE (IF k + 1 - i <= Len(b) THEN a[i] * b[k + 1 - i] ELSE 0)
         + ColSum(a, b, k, i + 1)

BigMul(a, b) ==
    IF a = <<>> \/ b = <<>> THEN <<>>
    ELSE Trim(Carry([k \in 1..(Len(a) + Len(b) - 1) |-> ColSum(a, b, k, 1)], 0))

\* a * k and a divided by k, for a small k > 0.
MulSmall(a, k) == Trim(Carry([i \in 1..Len(a) |-> a[i] * k], 0))

RECURSIVE DivFrom(_, _, _, _)
DivFrom(a, k, i, r) ==
    IF i = 0 THEN [q |-> <<>>, r |-> r]
    ELSE LET n == r * Limb + a[i]
             rest == DivFrom(a, k, i - 1, n % k)
         IN  [q |-> rest.q \o <<n \div k>>, r |-> rest.r]

DivSmall(a, k) ==
    LET d == DivFrom(a, k, Len(a), 0) IN [q |-> Trim(d.q), r |-> d.r]

\* a * 2^n and the integer part of a / 2^n.
ShiftLeft(a, n) ==
    IF a = <<>> THEN <<>>
    ELSE [i \in 1..(n \div LimbBits) |-> 0] \o MulSmall(a, 2^(n % LimbBits))

ShiftRight(a, n) ==
    IF n \div LimbBits >= Len(a) THEN <<>>
    ELSE DivSmall(SubSeq(a, n \div LimbBits + 1, Len(a)), 2^(n % LimbBits)).q

\* The number of binary digits of a.
BitLen(a) ==
    IF a = <<>> THEN 0
    ELSE LimbBits * (Len(a) - 1)
         + (CHOOSE n \in 1..LimbBits :
                2^(n - 1) <= a[Len(a)] /\ a[Len(a)] < 2^n)

\* m * 2^e with m made odd.
RECURSIVE Normal(_, _, _)
Normal(neg, m, e) ==
    IF m = <<>> THEN [neg |-> FALSE, m |-> <<>>, e |-> 0]
    ELSE IF m[1] = 0 THEN Normal(neg, Tail(m), e + LimbBits)
    ELSE IF m[1] % 2 = 0 THEN Normal(neg, ShiftRight(m, 1), e + 1)
    ELSE [neg |-> neg, m |-> m, e |-> e]

\* The significand of a binary64 has 53 binary digits.
Precision == 53

\* The float nearest to (-1)^neg * (m + s) * 2^e, where 0 <= s < 1 and s > 0
\* iff sticky: ties go to the even significand.  When sticky, m has more than
\* Precision + 1 digits.
Round(neg, m, e, sticky) ==
    LET d == BitLen(m) - Precision
    IN  IF d <= 0 THEN Normal(neg, m, e)
        ELSE LET q == ShiftRight(m, d)
                 c == BigCmp(BigSub(m, ShiftLeft(q, d)), ShiftLeft(<<1>>, d - 1))
                 up == c > 0 \/ (c = 0 /\ (sticky \/ q[1] % 2 = 1))
             IN  Normal(neg, IF up THEN BigAdd(q, <<1>>) ELSE q, e + d)

\* The number whose decimal digits are g, in groups of four, the most
\* significant group first.
RECURSIVE Groups(_, _)
Groups(g, acc) ==
    IF g = <<>> THEN acc
    ELSE Groups(Tail(g), BigAdd(MulSmall(acc, 10000), Big(g[1])))

RECURSIVE Mul10(_, _)
Mul10(a, k) == IF a = <<>> \/ k = 0 THEN a ELSE Mul10(MulSmall(a, 10), k - 1)

\* The integer part of a / 10^k, and whether a remainder was dropped.
RECURSIVE Div10(_, _, _)
Div10(a, k, sticky) ==
    IF a = <<>> \/ k = 0 THEN [q |-> a, sticky |-> sticky]
    ELSE LET d == DivSmall(a, 10) IN Div10(d.q, k - 1, sticky \/ d.r # 0)

\* The float a decimal literal denotes: the digits g (as for Groups) times
\* 10^x.  0.00075 is float(<<75>>, -5).
float(g, x) ==
    IF x >= 0 THEN Round(FALSE, Mul10(Groups(g, <<>>), x), 0, FALSE)
    ELSE LET s == 4 * (-x) + 60
             d == Div10(ShiftLeft(Groups(g, <<>>), s), -x, FALSE)
         IN  Round(FALSE, d.q, -s, d.sticky)

\* -a, a * b, a + b for a and b of one sign, and a / k for an int k with
\* 0 < k < 2^19.
fneg(a) == [a EXCEPT !.neg = ~a.neg /\ a.m # <<>>]

fmul(a, b) == Round(a.neg # b.neg, BigMul(a.m, b.m), a.e + b.e, FALSE)

fadd(a, b) ==
    LET e == IF a.e < b.e THEN a.e ELSE b.e
    IN  Round(a.neg \/ b.neg,
              BigAdd(ShiftLeft(a.m, a.e - e), ShiftLeft(b.m, b.e - e)), e, FALSE)

fdiv(a, k) ==
    LET d == DivSmall(ShiftLeft(a.m, 80), k)
    IN  Round(a.neg, d.q, a.e - 80, d.r # 0)

\* math.pi, and math.pow(x, y) for y = 2: the square, correctly rounded.
math_pi == float(<<3141, 5926, 5358, 9793>>, -15)

math_pow(x, y) == fmul(x, x)

----------------------------------------------------------------------------
(* 4/ Functions *)

\* A single cylinder: the volume without the factor 2.
single_cylindric_magnet(radius, length, center_distance, density) ==
    LET V == fmul(fmul(math_pow(radius, 2), math_pi), length)
        m == fmul(V, density)
        mz == fmul(m, fadd(fadd(fdiv(math_pow(radius, 2), 4),
                                fdiv(math_pow(length, 2), 12)),
                           math_pow(center_distance, 2)))
    IN  [V |-> V, m |-> m, mom_z |-> mz]

double_cylindric_magnet(radius, length, center_distance, density) ==
    LET V == fmul(fmul(fmul(float(<<2>>, 0), math_pow(radius, 2)), math_pi),
                  length)
        m == fmul(V, density)
        mz == fmul(m, fadd(fadd(fdiv(math_pow(radius, 2), 4),
                                fdiv(math_pow(length, 2), 12)),
                           math_pow(center_distance, 2)))
    IN  [V |-> V, m |-> m, mom_z |-> mz]

\* cs.double_cylindric_magnet(radius, length, center_distance, density)
call_double_cylindric_magnet(radius, length, center_distance, density) ==
    /\ ret' = Some([prop |-> "double_cylindric_magnet",
                    args |-> [radius |-> radius, length |-> length,
                              center_distance |-> center_distance,
                              density |-> density],
                    val |-> Some(double_cylindric_magnet(
                                     radius, length, center_distance, density))])
    /\ raised' = None
    /\ status' = None
    /\ UNCHANGED <<params, tho_lim, rapidity_results, stability_results,
                   stability_results_s, rapidity_results_s,
                   rapidity_results_exp, tho, stab_amp, second_half, ode>>

(* Specification of double_cylindric_magnet: calls with every combination of
   the arguments below, the defaults and the test's magnet among them. *)

RadiusDefault == float(<<75>>, -5)
LengthDefault == float(<<1>>, -2)
CenterDistanceDefault == float(<<15>>, -4)
DensityDefault == float(<<7500>>, 0)

Radii == {RadiusDefault, float(<<5>>, -4), float(<<1>>, -3)}
Lengths == {LengthDefault, float(<<8>>, -3), fneg(LengthDefault),
            float(<<3>>, 0)}
CenterDistances == {CenterDistanceDefault, float(<<0>>, 0), float(<<1>>, -1)}
Densities == {DensityDefault, float(<<7874>>, 0), float(<<1>>, -1)}

InitMagnet ==
    DynamicInit(R500, Lille, AlphaInitDefault, TfRapDefault, TfStabDefault, 1,
                ThoLimDefault,
                [rap |-> Swing(TfRapDefault), rap_s |-> Swing(TfRapDefault),
                 stab |-> Ramp(TfStabDefault), stab_s |-> Ramp(TfStabDefault)])

NextMagnet ==
    \E radius \in Radii, length \in Lengths,
       center_distance \in CenterDistances, density \in Densities :
        call_double_cylindric_magnet(radius, length, center_distance, density)

SpecMagnet == InitMagnet /\ [][NextMagnet]_vars

(* Exact arithmetic on the values of floats: [neg, m, e] with any m. *)

xmul(a, b) == [neg |-> a.neg # b.neg, m |-> BigMul(a.m, b.m), e |-> a.e + b.e]
xscale(a, k) == [a EXCEPT !.m = MulSmall(a.m, k)]

\* a + b for a, b >= 0.
xadd(a, b) ==
    LET e == IF a.e < b.e THEN a.e ELSE b.e
    IN  [neg |-> FALSE,
         m |-> BigAdd(ShiftLeft(a.m, a.e - e), ShiftLeft(b.m, b.e - e)),
         e |-> e]

\* |a - x| <= 2^-50 * |x|: a is x up to the rounding of a few float
\* operations, each of relative error at most 2^-53.
Close(a, x) ==
    LET e == IF a.e < x.e THEN a.e ELSE x.e
        am == ShiftLeft(a.m, a.e - e)
        xm == ShiftLeft(x.m, x.e - e)
        diff == IF BigCmp(am, xm) >= 0 THEN BigSub(am, xm) ELSE BigSub(xm, am)
    IN  /\ (a.neg = x.neg \/ (a.m = <<>> /\ x.m = <<>>))
        /\ BigCmp(ShiftLeft(diff, 50), xm) <= 0

\* The last call was double_cylindric_magnet, with the default arguments.
MagnetCalled == ret # None /\ Val(ret).prop = "double_cylindric_magnet"
MagnetDefaults ==
    /\ MagnetCalled
    /\ Val(ret).args = [radius |-> RadiusDefault, length |-> LengthDefault,
                        center_distance |-> CenterDistanceDefault,
                        density |-> DensityDefault]

\* C11: double_cylindric_magnet returns a mapping with, up to float rounding,
\* V = 2*pi*radius^2*length, m = V*density and
\* mom_z = m*(radius^2/4 + length^2/12 + center_distance^2) (stated as
\* 12*mom_z = m*(3*radius^2 + length^2 + 12*center_distance^2)); with the
\* defaults it returns exactly the floats V = 3.534291735288517e-08,
\* m = 2.650718801466388e-04 and mom_z = 2.842619798030882e-09.
C11_MagnetFormula ==
    MagnetCalled =>
        LET a == Val(ret).args
            out == Val(Val(ret).val)
            r2 == xmul(a.radius, a.radius)
            l2 == xmul(a.length, a.length)
            c2 == xmul(a.center_distance, a.center_distance)
        IN  /\ DOMAIN out = {"V", "m", "mom_z"}
            /\ Close(out.V, xmul(xscale(xmul(math_pi, r2), 2), a.length))
            /\ Close(out.m, xmul(out.V, a.density))
            /\ Close(xscale(out.mom_z, 12),
                     xmul(out.m, xadd(xadd(xscale(r2, 3), l2), xscale(c2, 12))))
            /\ MagnetDefaults =>
                   out = [V |-> float(<<3534, 2917, 3528, 8517>>, -23),
                          m |-> float(<<2650, 7188, 146, 6388>>, -19),
                          mom_z |-> float(<<2842, 6197, 9803, 882>>, -24)]

\* The defaults have been passed and the three values returned are positive.
C11_Witness ==
    /\ MagnetDefaults
    /\ \A k \in {"V", "m", "mom_z"} :
           Val(Val(ret).val)[k].m # <<>> /\ ~Val(Val(ret).val)[k].neg

====
